---- MODULE Spec2Model ----
(***************************************************************************)
(* Model of the TMP102/TMP112 register-level driver: the configuration     *)
(* shadow held in the driver handle, the Continuous / OneShot type-state,  *)
(* and the bus transactions each driver call issues.                       *)
(*                                                                         *)
(* One step of the model is one call on the driver handle.  Besides the    *)
(* handle's own fields the state records what a test harness around the    *)
(* driver observes: the call just made, its return value, the bus          *)
(* transactions it issued, and the configuration register of the device    *)
(* on the other side of the bus.                                           *)
(***************************************************************************)
EXTENDS Integers, Sequences, FiniteSets, TLC

(***************************************************************************)
(* Bounds of the model.                                                    *)
(***************************************************************************)
\* Number of distinct error values the bus transport can report.
NumBusErrors == 1

\* Largest magnitude, in sixteenths of a degree, of the temperatures tried
\* as thresholds (4200 sixteenths = 262.5 C, beyond both codecs' ranges).
MaxTemp16 == 4200

(***************************************************************************)
(* Register map.                                                           *)
(***************************************************************************)
DEVICE_BASE_ADDRESS == 72

TEMPERATURE == 0
CONFIG == 1
T_LOW == 2
T_HIGH == 3

\* BitFlagsLow
SHUTDOWN == 1
THERMOSTAT == 2
ALERT_POLARITY == 4
FAULT_QUEUE0 == 8
FAULT_QUEUE1 == 16
RESOLUTION == 96
ONE_SHOT == 128

\* BitFlagsHigh
EXTENDED_MODE == 16
ALERT == 32
CONV_RATE0 == 64
CONV_RATE1 == 128

(***************************************************************************)
(* u8 arithmetic: Rust's `&`, `|` and `!` on bytes.                        *)
(***************************************************************************)
Bit(x, i) == (x \div (2 ^ i)) % 2

BitAnd(a, b) ==
    LET t(i) == Bit(a, i) * Bit(b, i) * (2 ^ i)
    IN  t(0) + t(1) + t(2) + t(3) + t(4) + t(5) + t(6) + t(7)

BitOr(a, b) ==
    LET t(i) == (IF Bit(a, i) + Bit(b, i) > 0 THEN 1 ELSE 0) * (2 ^ i)
    IN  t(0) + t(1) + t(2) + t(3) + t(4) + t(5) + t(6) + t(7)

BitNot(a) == 255 - a

(***************************************************************************)
(* Values.                                                                 *)
(***************************************************************************)
\* Config { lsb, msb } and its Default impl.
Config(lsb, msb) == [lsb |-> lsb, msb |-> msb]

ConfigDefault == Config(RESOLUTION, BitOr(ALERT, CONV_RATE1))

\* SlaveAddr and SlaveAddr::addr
SlaveAddr ==
    {[tag |-> "Default"]} \cup
    {[tag |-> "Alternative", a1 |-> a1, a0 |-> a0] : a1 \in 0..1, a0 \in 0..1}

\* SlaveAddr::addr with the shift applied to a0 instead of a1.
addr_shift_swapped(sa, default) ==
    IF sa.tag = "Default"
    THEN default
    ELSE BitOr(BitOr(default, sa.a1), sa.a0 * 2)

addr(sa, default) ==
    IF sa.tag = "Default"
    THEN default
    ELSE BitOr(BitOr(default, sa.a1 * 2), sa.a0)

\* Arguments of the field setters.
ConversionRate == {"_0_25Hz", "_1Hz", "_4Hz", "_8Hz"}
FaultQueue == {"_1", "_2", "_4", "_6"}
AlertPolarity == {"ActiveLow", "ActiveHigh"}
ThermostatMode == {"Comparator", "Interrupt"}

\* Outcome of one bus transaction: 0 is success, e > 0 is the transport's error e.
BusResults == 0..NumBusErrors

\* Result<(), Error<E>>: Ok(()) or Err(Error::I2C(e)).
Ok == [tag |-> "Ok"]
ErrI2C(e) == [tag |-> "Err", error |-> "I2C", e |-> e]
Result(r) == IF r = 0 THEN Ok ELSE ErrI2C(r)

VARIABLES
    address,                                \* Tmp1x2.address
    config,                                 \* Tmp1x2.config, the shadow
    a_temperature_conversion_was_started,   \* Tmp1x2 field of that name
    mode,                                   \* the MODE type parameter of the handle
    i2c,                                    \* bus transactions issued by the last call
    device,                                 \* configuration register in the device
    call,                                   \* the last call: name, argument, handle before it
    ret                                     \* the value the last call returned

vars == <<address, config, a_temperature_conversion_was_started, mode,
          i2c, device, call, ret>>

\* The handle as a value (what a mode transition moves or hands back).
Tmp1x2 ==
    [address |-> address,
     config |-> config,
     a_temperature_conversion_was_started |-> a_temperature_conversion_was_started,
     mode |-> mode]

Called(op, arg) == [op |-> op, arg |-> arg, self |-> Tmp1x2]

\* One i2c.write(address, bytes) and the outcome the transport gave it.
Write(a, bytes, r) == [kind |-> "write", address |-> a, bytes |-> bytes, result |-> r]

\* One i2c.write_read(address, bytes, &mut data): what the buffer holds
\* afterwards and the outcome the transport gave.
WriteRead(a, bytes, data, r) ==
    [kind |-> "write_read", address |-> a, bytes |-> bytes, data |-> data, result |-> r]

(***************************************************************************)
(* Temperature codec for the threshold registers.  Temperatures are        *)
(* integers counting sixteenths of a degree Celsius (0.0625 C); a register *)
(* pair is <<msb, lsb>>.                                                   *)
(***************************************************************************)
TempInputs == {-5000, 400, 3000}

Clamp(t, lo, hi) == IF t > hi THEN hi ELSE IF t < lo THEN lo ELSE t

RegisterPair(w) == <<w \div 256, w % 256>>

convert_temp_to_register_normal(t) ==
    RegisterPair((Clamp(t, -2048, 2047) * 16) % 65536)

convert_temp_to_register_extended(t) ==
    RegisterPair((Clamp(t, -4096, 4094) * 8) % 65536)

\* Register pair to temperature: a signed 16-bit word whose top 12 (normal) or
\* 13 (extended) bits count sixteenths of a degree.
Signed16(msb, lsb) ==
    LET w == msb * 256 + lsb IN IF w >= 32768 THEN w - 65536 ELSE w

decode_normal(msb, lsb) == Signed16(msb, lsb) \div 16

decode_extended(msb, lsb) == Signed16(msb, lsb) \div 8

convert_temp_from_register(msb, lsb) == decode_normal(msb, lsb)

\* Contents the temperature register may hold when it is read.
TempRegisters == {<<25, 0>>, <<255, 240>>}

(***************************************************************************)
(* The device on the bus: a successful write to the configuration register *)
(* stores the two bytes written.                                           *)
(***************************************************************************)
DeviceAfterWrite(register, lsb, msb, r) ==
    IF r = 0 /\ register = CONFIG THEN Config(lsb, msb) ELSE device

(***************************************************************************)
(* Private helpers of the driver.  r is the outcome of the bus transaction *)
(* the helper issues.                                                      *)
(***************************************************************************)
\* write_register that issues the write a second time when the first one failed.
write_register_retry(register, lsb, msb, r) ==
    /\ i2c' = IF r = 0
              THEN <<Write(address, <<register, msb, lsb>>, r)>>
              ELSE <<Write(address, <<register, msb, lsb>>, r),
                     Write(address, <<register, msb, lsb>>, r)>>
    /\ device' = DeviceAfterWrite(register, lsb, msb, r)

write_register(register, lsb, msb, r) ==
    /\ i2c' = <<Write(address, <<register, msb, lsb>>, r)>>
    /\ device' = DeviceAfterWrite(register, lsb, msb, r)

\* write_config with the shadow assigned before the write's outcome is known.
write_config_speculative(lsb, msb, r) ==
    /\ write_register(CONFIG, lsb, msb, r)
    /\ config' = Config(lsb, msb)

\* write_config that issues the write and never assigns the shadow.
write_config_unstored(lsb, msb, r) ==
    /\ write_register(CONFIG, lsb, msb, r)
    /\ config' = config

write_config(lsb, msb, r) ==
    /\ write_register(CONFIG, lsb, msb, r)
    /\ config' = IF r = 0 THEN Config(lsb, msb) ELSE config

\* config_continuous with the mask not complemented.
config_continuous_unmasked(r) ==
    write_config(BitAnd(config.lsb, SHUTDOWN), config.msb, r)

config_continuous(r) ==
    write_config(BitAnd(config.lsb, BitNot(SHUTDOWN)), config.msb, r)

\* config_one_shot writing the flag alone instead of OR-ing it into the shadow.
config_one_shot_clobber(r) ==
    write_config(SHUTDOWN, config.msb, r)

config_one_shot(r) ==
    write_config(BitOr(config.lsb, SHUTDOWN), config.msb, r)

\* The new msb / lsb each match arm of a field setter computes.  Rust's `&`
\* binds tighter than `|`, and `!` tighter than both.
conversion_rate_msb(msb, rate) ==
    CASE rate = "_0_25Hz" -> BitAnd(BitAnd(msb, BitNot(CONV_RATE1)), BitNot(CONV_RATE0))
      [] rate = "_1Hz"    -> BitOr(BitAnd(msb, BitNot(CONV_RATE1)), CONV_RATE0)
      [] rate = "_4Hz"    -> BitOr(msb, BitAnd(CONV_RATE1, BitNot(CONV_RATE0)))
      [] rate = "_8Hz"    -> BitOr(BitOr(msb, CONV_RATE1), CONV_RATE0)

fault_queue_lsb(lsb, fq) ==
    CASE fq = "_1" -> BitAnd(BitAnd(lsb, BitNot(FAULT_QUEUE1)), BitNot(FAULT_QUEUE0))
      [] fq = "_2" -> BitOr(BitAnd(lsb, BitNot(FAULT_QUEUE1)), FAULT_QUEUE0)
      [] fq = "_4" -> BitOr(lsb, BitAnd(FAULT_QUEUE1, BitNot(FAULT_QUEUE0)))
      [] fq = "_6" -> BitOr(BitOr(lsb, FAULT_QUEUE1), FAULT_QUEUE0)

alert_polarity_lsb(lsb, polarity) ==
    CASE polarity = "ActiveLow"  -> BitAnd(lsb, BitNot(ALERT_POLARITY))
      [] polarity = "ActiveHigh" -> BitOr(lsb, ALERT_POLARITY)

\* thermostat_mode_lsb clearing with the mask itself instead of its complement.
thermostat_mode_lsb_wrong_mask(lsb, m) ==
    CASE m = "Comparator" -> BitAnd(lsb, THERMOSTAT)
      [] m = "Interrupt"  -> BitOr(lsb, THERMOSTAT)

thermostat_mode_lsb(lsb, m) ==
    CASE m = "Comparator" -> BitAnd(lsb, BitNot(THERMOSTAT))
      [] m = "Interrupt"  -> BitOr(lsb, THERMOSTAT)

\* set_temperature_threshold refusing to write a value outside the normal range.
set_temperature_threshold_range_checked(temperature, register, r) ==
    IF temperature > 2047 \/ temperature < -2048
    THEN i2c' = << >> /\ device' = device
    ELSE IF BitAnd(config.msb, EXTENDED_MODE) # 0
    THEN LET p == convert_temp_to_register_extended(temperature)
         IN  write_register(register, p[2], p[1], r)
    ELSE LET p == convert_temp_to_register_normal(temperature)
         IN  write_register(register, p[2], p[1], r)

\* set_temperature_threshold that never consults the shadow and always
\* encodes with the normal codec.
set_temperature_threshold_normal_only(temperature, register, r) ==
    LET p == convert_temp_to_register_normal(temperature)
    IN  write_register(register, p[2], p[1], r)

\* set_temperature_threshold with the test of the extended-mode bit inverted.
set_temperature_threshold_swapped(temperature, register, r) ==
    IF BitAnd(config.msb, EXTENDED_MODE) = 0
    THEN LET p == convert_temp_to_register_extended(temperature)
         IN  write_register(register, p[2], p[1], r)
    ELSE LET p == convert_temp_to_register_normal(temperature)
         IN  write_register(register, p[2], p[1], r)

set_temperature_threshold(temperature, register, r) ==
    IF BitAnd(config.msb, EXTENDED_MODE) # 0
    THEN LET p == convert_temp_to_register_extended(temperature)
         IN  write_register(register, p[2], p[1], r)
    ELSE LET p == convert_temp_to_register_normal(temperature)
         IN  write_register(register, p[2], p[1], r)

\* What the harness records of a call that leaves the handle's type alone.
Returns(op, arg, value) ==
    /\ call' = Called(op, arg)
    /\ ret' = value
    /\ UNCHANGED <<address, a_temperature_conversion_was_started, mode>>

(***************************************************************************)
(* Construction.                                                           *)
(***************************************************************************)
\* Tmp1x2::new(i2c, sa): the state right after construction.
new(sa) ==
    LET dev == [address |-> addr(sa, DEVICE_BASE_ADDRESS),
                config |-> ConfigDefault,
                a_temperature_conversion_was_started |-> FALSE,
                mode |-> "Continuous"]
    IN  /\ address = dev.address
        /\ config = dev.config
        /\ a_temperature_conversion_was_started = FALSE
        /\ mode = dev.mode
        /\ i2c = << >>
        /\ device = ConfigDefault
        /\ call = [op |-> "new", arg |-> sa, self |-> dev]
        /\ ret = [tag |-> "Ok", value |-> dev]

\* setup(): a handle constructed at the default slave address.
Init == new([tag |-> "Default"])

(***************************************************************************)
(* Mode transitions (impl Tmp1x2<I2C, mode::Continuous> / mode::OneShot).  *)
(***************************************************************************)
\* into_one_shot that builds the OneShot handle whatever config_one_shot returned.
into_one_shot_ignoring_error ==
    /\ mode = "Continuous"
    /\ \E r \in BusResults :
        /\ config_one_shot(r)
        /\ a_temperature_conversion_was_started' = FALSE
        /\ mode' = "OneShot"
        /\ ret' = [tag |-> "Ok",
                   value |-> [address |-> address,
                              config |-> config',
                              a_temperature_conversion_was_started |-> FALSE,
                              mode |-> "OneShot"]]
    /\ call' = Called("into_one_shot", << >>)
    /\ UNCHANGED address

into_one_shot ==
    /\ mode = "Continuous"
    /\ \E r \in BusResults :
        /\ config_one_shot(r)
        /\ IF r # 0
           THEN /\ ret' = [tag |-> "Err", error |-> "ModeChangeError::I2C", e |-> r,
                           dev |-> [Tmp1x2 EXCEPT !.config = config']]
                /\ UNCHANGED <<a_temperature_conversion_was_started, mode>>
           ELSE /\ a_temperature_conversion_was_started' = FALSE
                /\ mode' = "OneShot"
                /\ ret' = [tag |-> "Ok",
                           value |-> [address |-> address,
                                      config |-> config',
                                      a_temperature_conversion_was_started |-> FALSE,
                                      mode |-> "OneShot"]]
    /\ call' = Called("into_one_shot", << >>)
    /\ UNCHANGED address

into_continuous ==
    /\ mode = "OneShot"
    /\ \E r \in BusResults :
        /\ config_continuous(r)
        /\ IF r # 0
           THEN /\ ret' = [tag |-> "Err", error |-> "ModeChangeError::I2C", e |-> r,
                           dev |-> [Tmp1x2 EXCEPT !.config = config']]
                /\ UNCHANGED <<a_temperature_conversion_was_started, mode>>
           ELSE /\ a_temperature_conversion_was_started' = FALSE
                /\ mode' = "Continuous"
                /\ ret' = [tag |-> "Ok",
                           value |-> [address |-> address,
                                      config |-> config',
                                      a_temperature_conversion_was_started |-> FALSE,
                                      mode |-> "Continuous"]]
    /\ call' = Called("into_continuous", << >>)
    /\ UNCHANGED address

\* trigger_one_shot_measurement routed through write_config, so the bit is cached.
trigger_one_shot_measurement_cached ==
    /\ mode = "OneShot"
    /\ \E r \in BusResults :
        /\ write_config(BitOr(config.lsb, ONE_SHOT), config.msb, r)
        /\ Returns("trigger_one_shot_measurement", << >>, Result(r))

trigger_one_shot_measurement ==
    /\ mode = "OneShot"
    /\ \E r \in BusResults :
        /\ i2c' = <<Write(address, <<CONFIG, config.msb, BitOr(config.lsb, ONE_SHOT)>>, r)>>
        /\ device' = DeviceAfterWrite(CONFIG, BitOr(config.lsb, ONE_SHOT), config.msb, r)
        /\ Returns("trigger_one_shot_measurement", << >>, Result(r))
    /\ UNCHANGED config

(***************************************************************************)
(* Register reads (reading.rs).  A configuration read returns the device's *)
(* register, whose ONE_SHOT bit is the device's live conversion status.    *)
(***************************************************************************)
read_temperature ==
    \E r \in BusResults, reg \in TempRegisters :
        LET data == IF r = 0 THEN reg ELSE <<0, 0>>
        IN  /\ i2c' = <<WriteRead(address, <<TEMPERATURE>>, data, r)>>
            /\ Returns("read_temperature", << >>,
                       IF r = 0
                       THEN [tag |-> "Ok",
                             value |-> convert_temp_from_register(data[1], data[2])]
                       ELSE ErrI2C(r))
            /\ UNCHANGED <<config, device>>

\* The readiness poll testing the first byte read instead of the second.
is_one_shot_measurement_result_ready_first_byte ==
    \E r \in BusResults, os \in 0..1 :
        LET data == IF r = 0
                    THEN <<device.msb, (device.lsb % 128) + 128 * os>>
                    ELSE <<0, 0>>
        IN  /\ i2c' = <<WriteRead(address, <<CONFIG>>, data, r)>>
            /\ Returns("is_one_shot_measurement_result_ready", << >>,
                       IF r = 0
                       THEN [tag |-> "Ok", value |-> (BitAnd(data[1], ONE_SHOT) # 0)]
                       ELSE ErrI2C(r))
            /\ UNCHANGED <<config, device>>

is_one_shot_measurement_result_ready ==
    \E r \in BusResults, os \in 0..1 :
        LET data == IF r = 0
                    THEN <<device.msb, (device.lsb % 128) + 128 * os>>
                    ELSE <<0, 0>>
        IN  /\ i2c' = <<WriteRead(address, <<CONFIG>>, data, r)>>
            /\ Returns("is_one_shot_measurement_result_ready", << >>,
                       IF r = 0
                       THEN [tag |-> "Ok", value |-> (BitAnd(data[2], ONE_SHOT) # 0)]
                       ELSE ErrI2C(r))
            /\ UNCHANGED <<config, device>>

(***************************************************************************)
(* Operations of impl<I2C, E, MODE> Tmp1x2<I2C, MODE>: no guard on mode.   *)
(***************************************************************************)
enable_extended_mode ==
    \E r \in BusResults :
        /\ write_config(config.lsb, BitOr(config.msb, EXTENDED_MODE), r)
        /\ Returns("enable_extended_mode", << >>, Result(r))

\* disable_extended_mode clearing the neighbouring flag of the high byte.
disable_extended_mode_wrong_flag ==
    \E r \in BusResults :
        /\ write_config(config.lsb, BitAnd(config.msb, BitNot(ALERT)), r)
        /\ Returns("disable_extended_mode", << >>, Result(r))

disable_extended_mode ==
    \E r \in BusResults :
        /\ write_config(config.lsb, BitAnd(config.msb, BitNot(EXTENDED_MODE)), r)
        /\ Returns("disable_extended_mode", << >>, Result(r))

set_conversion_rate ==
    \E rate \in ConversionRate, r \in BusResults :
        /\ write_config(config.lsb, conversion_rate_msb(config.msb, rate), r)
        /\ Returns("set_conversion_rate", rate, Result(r))

\* The threshold setters applied to one temperature.
set_high_temperature_threshold_to(temperature) ==
    \E r \in BusResults :
        /\ set_temperature_threshold(temperature, T_HIGH, r)
        /\ Returns("set_high_temperature_threshold", temperature, Result(r))
        /\ UNCHANGED config

set_low_temperature_threshold_to(temperature) ==
    \E r \in BusResults :
        /\ set_temperature_threshold(temperature, T_LOW, r)
        /\ Returns("set_low_temperature_threshold", temperature, Result(r))
        /\ UNCHANGED config

set_high_temperature_threshold ==
    \E temperature \in TempInputs :
        set_high_temperature_threshold_to(temperature)

set_low_temperature_threshold ==
    \E temperature \in TempInputs :
        set_low_temperature_threshold_to(temperature)

set_fault_queue ==
    \E fq \in FaultQueue, r \in BusResults :
        /\ write_config(fault_queue_lsb(config.lsb, fq), config.msb, r)
        /\ Returns("set_fault_queue", fq, Result(r))

set_alert_polarity ==
    \E polarity \in AlertPolarity, r \in BusResults :
        /\ write_config(alert_polarity_lsb(config.lsb, polarity), config.msb, r)
        /\ Returns("set_alert_polarity", polarity, Result(r))

set_thermostat_mode ==
    \E m \in ThermostatMode, r \in BusResults :
        /\ write_config(thermostat_mode_lsb(config.lsb, m), config.msb, r)
        /\ Returns("set_thermostat_mode", m, Result(r))

\* reset_internal_driver_state restoring the low byte only.
reset_internal_driver_state_partial ==
    /\ config' = Config(ConfigDefault.lsb, config.msb)
    /\ i2c' = << >>
    /\ Returns("reset_internal_driver_state", << >>, [tag |-> "Unit"])
    /\ UNCHANGED device

reset_internal_driver_state ==
    /\ config' = ConfigDefault
    /\ i2c' = << >>
    /\ Returns("reset_internal_driver_state", << >>, [tag |-> "Unit"])
    /\ UNCHANGED device

Next ==
    \/ into_one_shot
    \/ into_continuous
    \/ trigger_one_shot_measurement
    \/ enable_extended_mode
    \/ disable_extended_mode
    \/ set_conversion_rate
    \/ set_high_temperature_threshold
    \/ set_low_temperature_threshold
    \/ set_fault_queue
    \/ set_alert_polarity
    \/ set_thermostat_mode
    \/ reset_internal_driver_state
    \/ read_temperature
    \/ is_one_shot_measurement_result_ready

Spec == Init /\ [][Next]_vars

(***************************************************************************)
(* The same driver constructed at any of the slave addresses.  To keep the *)
(* four copies of the state space small, set_fault_queue, which reaches    *)
(* the bus through write_config like the other field setters, is left out. *)
(***************************************************************************)
AddrInit == \E sa \in SlaveAddr : new(sa)

AddrNext ==
    \/ into_one_shot
    \/ into_continuous
    \/ trigger_one_shot_measurement
    \/ enable_extended_mode
    \/ disable_extended_mode
    \/ set_conversion_rate
    \/ set_high_temperature_threshold
    \/ set_low_temperature_threshold
    \/ set_alert_polarity
    \/ set_thermostat_mode
    \/ reset_internal_driver_state
    \/ read_temperature
    \/ is_one_shot_measurement_result_ready

AddrSpec == AddrInit /\ [][AddrNext]_vars

(***************************************************************************)
(* The runs in which reset_internal_driver_state is never called.          *)
(***************************************************************************)
NoResetNext ==
    \/ into_one_shot
    \/ into_continuous
    \/ trigger_one_shot_measurement
    \/ enable_extended_mode
    \/ disable_extended_mode
    \/ set_conversion_rate
    \/ set_high_temperature_threshold
    \/ set_low_temperature_threshold
    \/ set_fault_queue
    \/ set_alert_polarity
    \/ set_thermostat_mode
    \/ read_temperature
    \/ is_one_shot_measurement_result_ready

NoResetSpec == Init /\ [][NoResetNext]_vars

(***************************************************************************)
(* The threshold codec over its whole input range: a handle is             *)
(* constructed, extended mode is enabled or not, and one threshold is set  *)
(* to any temperature between -MaxTemp16 and MaxTemp16 sixteenths.         *)
(***************************************************************************)
WideTemps == (0 - MaxTemp16)..MaxTemp16

ThresholdNext ==
    \/ call.op = "new" /\ enable_extended_mode
    \/ /\ call.op \in {"new", "enable_extended_mode"}
       /\ \E temperature \in WideTemps :
              set_high_temperature_threshold_to(temperature)
    \/ /\ call.op \in {"new", "enable_extended_mode"}
       /\ \E temperature \in WideTemps :
              set_low_temperature_threshold_to(temperature)

ThresholdSpec == Init /\ [][ThresholdNext]_vars

(***************************************************************************)
(* Properties.  Each is stated over the state after a call: `call.self` is *)
(* the handle as it was before the call, `i2c` what the call put on the    *)
(* bus, `ret` what it returned.                                            *)
(***************************************************************************)
\* The calls whose bus write goes through write_config.
WriteConfigOps ==
    {"into_one_shot", "into_continuous", "enable_extended_mode",
     "disable_extended_mode", "set_conversion_rate", "set_fault_queue",
     "set_alert_polarity", "set_thermostat_mode"}

ModeTransitions == {"into_one_shot", "into_continuous"}

BusFailed == Len(i2c) >= 1 /\ i2c[Len(i2c)].result # 0
BusSucceeded == Len(i2c) >= 1 /\ i2c[Len(i2c)].result = 0

\* C1: when the bus write of a call that goes through write_config fails,
\* the call returns that bus error and the shadow is byte-for-byte what it
\* was before the call.
C1_ShadowUnchangedOnFailure ==
    (call.op \in WriteConfigOps /\ BusFailed) =>
        /\ ret.tag = "Err"
        /\ ret.e = i2c[1].result
        /\ config.lsb = call.self.config.lsb
        /\ config.msb = call.self.config.msb

\* C1 witness: a field setter whose write failed while asking for bytes that
\* differ from the shadow.
C1_Witness ==
    /\ call.op = "set_fault_queue"
    /\ BusFailed
    /\ ret.tag = "Err"
    /\ i2c[1].bytes # <<CONFIG, config.msb, config.lsb>>

\* C2 as stated: in every reachable state the shadow equals the bytes of
\* the most recent successful write to the configuration register, or the
\* power-on default if there has been none (that is what `device` holds).
C2_Original == config = device

\* C2 amended: the shadow equals the bytes of the most recent successful
\* write issued through write_config, or the power-on default if there has
\* been none since construction or since the last
\* reset_internal_driver_state; the trigger's write and the threshold
\* writes are not stored.
C2_ShadowIsLastWriteConfig ==
    IF call.op \in {"new", "reset_internal_driver_state"}
    THEN config = ConfigDefault
    ELSE IF call.op \in WriteConfigOps /\ BusSucceeded
    THEN config = Config(i2c[1].bytes[3], i2c[1].bytes[2])
    ELSE config = call.self.config

\* C2 witness: a successful trigger has put bytes in the configuration
\* register that the shadow, kept from an earlier write_config, does not hold.
C2_Witness ==
    /\ call.op = "trigger_one_shot_measurement"
    /\ BusSucceeded
    /\ config # device
    /\ config # ConfigDefault
    /\ config = call.self.config

\* C3: a mode transition whose bus write fails returns a ModeChangeError
\* carrying the bus error and the original handle: same mode tag, address
\* and shadow as before the call, and every operation of the original mode,
\* the transition itself included, can still be applied.
C3_FailedTransitionReturnsHandle ==
    (call.op \in ModeTransitions /\ BusFailed) =>
        /\ ret.tag = "Err"
        /\ ret.error = "ModeChangeError::I2C"
        /\ ret.e = i2c[1].result
        /\ ret.dev = call.self
        /\ Tmp1x2 = call.self
        /\ mode = (IF call.op = "into_one_shot" THEN "Continuous" ELSE "OneShot")
        /\ IF call.op = "into_one_shot"
           THEN ENABLED into_one_shot
           ELSE ENABLED into_continuous /\ ENABLED trigger_one_shot_measurement
        /\ ENABLED enable_extended_mode
        /\ ENABLED set_conversion_rate
        /\ ENABLED set_high_temperature_threshold
        /\ ENABLED set_fault_queue

\* C3 witness: into_continuous failed on a OneShot handle whose shadow is
\* no longer the default.
C3_Witness ==
    /\ call.op = "into_continuous"
    /\ BusFailed
    /\ ret.tag = "Err"
    /\ mode = "OneShot"
    /\ config.msb # ConfigDefault.msb

\* C4: a successful mode transition issues exactly one bus write and
\* changes only the shutdown bit: into_one_shot writes
\* [0x01, msb, lsb | SHUTDOWN] and yields a OneShot handle with that shadow,
\* into_continuous writes [0x01, msb, lsb & !SHUTDOWN] and yields a
\* Continuous handle with that shadow; from the default shadow the writes
\* are [0x01, 0b1010_0000, 0b0110_0001] and [0x01, 0b1010_0000, 0b0110_0000].
C4_TransitionWritesShutdownBit ==
    (call.op \in ModeTransitions /\ BusSucceeded) =>
        LET old == call.self.config
            sd  == IF call.op = "into_one_shot" THEN 1 ELSE 0
            lsb == (old.lsb \div 2) * 2 + sd
        IN  /\ Len(i2c) = 1
            /\ i2c[1].kind = "write"
            /\ i2c[1].bytes = <<1, old.msb, lsb>>
            /\ lsb = (IF sd = 1 THEN BitOr(old.lsb, SHUTDOWN)
                                ELSE BitAnd(old.lsb, BitNot(SHUTDOWN)))
            /\ config = Config(lsb, old.msb)
            /\ mode = (IF sd = 1 THEN "OneShot" ELSE "Continuous")
            /\ call.self.mode = (IF sd = 1 THEN "Continuous" ELSE "OneShot")
            /\ ret.tag = "Ok"
            /\ ret.value = Tmp1x2
            /\ (old = Config(96, 160)) => i2c[1].bytes = <<1, 160, 96 + sd>>

\* C4 witness: into_continuous succeeded from the default shadow.
C4_Witness ==
    /\ call.op = "into_continuous"
    /\ BusSucceeded
    /\ call.self.config = Config(96, 160)
    /\ i2c = <<Write(72, <<1, 160, 96>>, 0)>>
    /\ mode = "Continuous"

\* C5 as stated: from every reachable shadow, a successful
\* enable_extended_mode followed by a successful disable_extended_mode
\* leaves the shadow equal to its value before the two calls.
C5_Original ==
    [][(/\ call.op = "enable_extended_mode" /\ ret = Ok
        /\ call'.op = "disable_extended_mode" /\ ret' = Ok)
       => config' = call.self.config]_vars

\* C5 amended: a successful enable_extended_mode followed by a successful
\* disable_extended_mode leaves the shadow equal to its value before the
\* two calls with the extended-mode bit cleared; it is restored exactly
\* when that bit was clear before the two calls.
C5_ToggleClearsExtendedMode ==
    [][(/\ call.op = "enable_extended_mode" /\ ret = Ok
        /\ call'.op = "disable_extended_mode" /\ ret' = Ok)
       => LET old == call.self.config
          IN  /\ config'.lsb = old.lsb
              /\ config'.msb = old.msb - 16 * Bit(old.msb, 4)
              /\ (config' = old) <=> (Bit(old.msb, 4) = 0)
              /\ config.msb = old.msb + 16 * (1 - Bit(old.msb, 4))]_vars

\* C5 witness: disable_extended_mode has succeeded on a shadow in which the
\* extended-mode bit was set, and the shadow is the default again.
C5_Witness ==
    /\ call.op = "disable_extended_mode"
    /\ ret = Ok
    /\ Bit(call.self.config.msb, 4) = 1
    /\ config = ConfigDefault
    /\ device = ConfigDefault

\* C6 as stated: in every reachable state a Continuous handle has the
\* shutdown bit of the shadow clear and a OneShot handle has it set.
C6_Original ==
    /\ (mode = "Continuous") => Bit(config.lsb, 0) = 0
    /\ (mode = "OneShot") => Bit(config.lsb, 0) = 1

\* C6 amended: a Continuous handle always has the shutdown bit of the
\* shadow clear; into_one_shot yields a OneShot handle with the bit set and
\* every operation on a OneShot handle except reset_internal_driver_state
\* keeps it set; reset_internal_driver_state on a OneShot handle leaves the
\* tag OneShot with the shutdown bit clear.
C6_TagAgreesExceptAfterReset ==
    /\ (mode = "Continuous") => Bit(config.lsb, 0) = 0
    /\ (mode = "OneShot" /\ call.op = "into_one_shot") => Bit(config.lsb, 0) = 1
    /\ (/\ mode = "OneShot"
        /\ call.op \notin {"into_one_shot", "reset_internal_driver_state"})
       => Bit(config.lsb, 0) = Bit(call.self.config.lsb, 0)
    /\ (mode = "OneShot" /\ call.op = "reset_internal_driver_state")
       => Bit(config.lsb, 0) = 0

\* C6 witness: a field setter succeeded on a OneShot handle and the
\* shutdown bit is still set.
C6_Witness ==
    /\ mode = "OneShot"
    /\ call.op = "set_fault_queue"
    /\ call.self.mode = "OneShot"
    /\ ret = Ok
    /\ config # call.self.config
    /\ Bit(config.lsb, 0) = 1

\* C7: set_conversion_rate is never applied to a OneShot handle.
C7_ConversionRateOnlyInContinuous ==
    (call.op = "set_conversion_rate") => call.self.mode = "Continuous"

\* The (bit 1, bit 0) pair each two-bit field encoding stands for.
RateBits(rate) ==
    CASE rate = "_0_25Hz" -> <<0, 0>>
      [] rate = "_1Hz"    -> <<0, 1>>
      [] rate = "_4Hz"    -> <<1, 0>>
      [] rate = "_8Hz"    -> <<1, 1>>

QueueBits(fq) ==
    CASE fq = "_1" -> <<0, 0>>
      [] fq = "_2" -> <<0, 1>>
      [] fq = "_4" -> <<1, 0>>
      [] fq = "_6" -> <<1, 1>>

\* C8: after a successful set_conversion_rate(r) the (CONV_RATE1,
\* CONV_RATE0) bits of the shadow high byte and of the written msb are
\* r's encoding, whatever rate was configured before.
C8_ConversionRateBits ==
    (call.op = "set_conversion_rate" /\ BusSucceeded) =>
        /\ <<Bit(config.msb, 7), Bit(config.msb, 6)>> = RateBits(call.arg)
        /\ <<Bit(i2c[1].bytes[2], 7), Bit(i2c[1].bytes[2], 6)>> = RateBits(call.arg)

\* C9: after a successful set_fault_queue(q) the (FAULT_QUEUE1,
\* FAULT_QUEUE0) bits of the shadow low byte and of the written lsb are
\* q's encoding, whatever fault queue was configured before.
C9_FaultQueueBits ==
    (call.op = "set_fault_queue" /\ BusSucceeded) =>
        /\ <<Bit(config.lsb, 4), Bit(config.lsb, 3)>> = QueueBits(call.arg)
        /\ <<Bit(i2c[1].bytes[3], 4), Bit(i2c[1].bytes[3], 3)>> = QueueBits(call.arg)

\* C10: trigger_one_shot_measurement issues exactly one write
\* [0x01, msb, lsb | ONE_SHOT] and leaves the shadow as it was, whether the
\* write succeeds or fails; the ONE_SHOT bit is never set in the shadow.
C10_TriggerNotCached ==
    /\ Bit(config.lsb, 7) = 0
    /\ (call.op = "trigger_one_shot_measurement") =>
        /\ call.self.mode = "OneShot"
        /\ Len(i2c) = 1
        /\ i2c[1].kind = "write"
        /\ i2c[1].address = address
        /\ i2c[1].bytes = <<1, call.self.config.msb, call.self.config.lsb + 128>>
        /\ i2c[1].bytes[3] = BitOr(call.self.config.lsb, ONE_SHOT)
        /\ config = call.self.config
        /\ ret = Result(i2c[1].result)

\* C10 witness: a trigger succeeded, the device holds the ONE_SHOT bit and
\* the shadow does not.
C10_Witness ==
    /\ call.op = "trigger_one_shot_measurement"
    /\ BusSucceeded
    /\ Bit(device.lsb, 7) = 1
    /\ Bit(config.lsb, 7) = 0
    /\ config.lsb # ConfigDefault.lsb + 1

\* C11 as stated: the readiness poll issues one write_read of [0x01]
\* returning 2 bytes, leaves the shadow alone, and on a successful read
\* returns true exactly when the ONE_SHOT bit of the low byte read is 0.
C11_Original ==
    (call.op = "is_one_shot_measurement_result_ready" /\ BusSucceeded) =>
        /\ Len(i2c) = 1
        /\ i2c[1].kind = "write_read"
        /\ i2c[1].bytes = <<1>>
        /\ Len(i2c[1].data) = 2
        /\ config = call.self.config
        /\ ret.tag = "Ok"
        /\ ret.value = (Bit(i2c[1].data[2], 7) = 0)

\* C11 amended: the readiness poll issues one write_read of [0x01]
\* returning 2 bytes, leaves the shadow alone, and on a successful read
\* returns true exactly when the ONE_SHOT bit of the low byte read is 1
\* (false when it is 0), whatever the shadow holds; on a failed read it
\* returns the bus error.
C11_ReadyWhenOneShotBitSet ==
    (call.op = "is_one_shot_measurement_result_ready") =>
        /\ Len(i2c) = 1
        /\ i2c[1].kind = "write_read"
        /\ i2c[1].address = address
        /\ i2c[1].bytes = <<1>>
        /\ Len(i2c[1].data) = 2
        /\ config = call.self.config
        /\ IF i2c[1].result = 0
           THEN /\ ret.tag = "Ok"
                /\ ret.value = (Bit(i2c[1].data[2], 7) = 1)
           ELSE ret = ErrI2C(i2c[1].result)

\* C11 witness: the poll read a low byte with the ONE_SHOT bit clear while
\* the high byte read has its top bit set, and answered false.
C11_Witness ==
    /\ call.op = "is_one_shot_measurement_result_ready"
    /\ BusSucceeded
    /\ Bit(i2c[1].data[2], 7) = 0
    /\ Bit(i2c[1].data[1], 7) = 1
    /\ ret = [tag |-> "Ok", value |-> FALSE]

\* C12: reset_internal_driver_state, in either mode, issues no bus
\* transaction, cannot fail, sets the shadow to the power-on default
\* {lsb: 0b0110_0000, msb: 0b1010_0000} and leaves the mode tag and the bus
\* address unchanged.
C12_ResetShadow ==
    /\ ENABLED reset_internal_driver_state
    /\ (call.op = "reset_internal_driver_state") =>
        /\ i2c = << >>
        /\ ret = [tag |-> "Unit"]
        /\ config = Config(96, 160)
        /\ mode = call.self.mode
        /\ address = call.self.address
        /\ a_temperature_conversion_was_started
               = call.self.a_temperature_conversion_was_started

\* C12 witness: a OneShot handle whose shadow had both bytes changed was reset.
C12_Witness ==
    /\ call.op = "reset_internal_driver_state"
    /\ mode = "OneShot"
    /\ call.self.config.lsb # 96
    /\ call.self.config.msb # 160
    /\ config = Config(96, 160)
    /\ device # config

ThresholdOps == {"set_high_temperature_threshold", "set_low_temperature_threshold"}

\* C13: a threshold setter encodes the value with the extended codec
\* exactly when the EXTENDED_MODE bit of the shadow high byte is set (the
\* normal codec otherwise), issues exactly one write [reg_addr, msb, lsb] to
\* the high resp. low threshold register, never to the configuration
\* register, and leaves the shadow unchanged on success and on failure.
C13_ThresholdWrite ==
    (call.op \in ThresholdOps) =>
        LET p == IF Bit(call.self.config.msb, 4) = 1
                 THEN convert_temp_to_register_extended(call.arg)
                 ELSE convert_temp_to_register_normal(call.arg)
        IN  /\ Len(i2c) = 1
            /\ i2c[1].kind = "write"
            /\ i2c[1].address = address
            /\ i2c[1].bytes[1] = (IF call.op = "set_high_temperature_threshold"
                                  THEN T_HIGH ELSE T_LOW)
            /\ i2c[1].bytes[1] # 1
            /\ i2c[1].bytes = <<i2c[1].bytes[1], p[1], p[2]>>
            /\ config = call.self.config
            /\ ret = Result(i2c[1].result)

\* C13 witness: a high threshold that the two codecs encode differently was
\* written with the extended-mode bit set.
C13_Witness ==
    /\ call.op = "set_high_temperature_threshold"
    /\ BusSucceeded
    /\ Bit(config.msb, 4) = 1
    /\ i2c[1].bytes = <<T_HIGH>> \o convert_temp_to_register_extended(call.arg)
    /\ convert_temp_to_register_extended(call.arg)
           # convert_temp_to_register_normal(call.arg)

\* C14: threshold encoding clamps instead of failing: an input above the
\* representable range is written as the encoding of the upper bound, an
\* input below it as the encoding of the lower bound (normal mode -128.0
\* and 127.9375, extended mode -256.0 and 255.875), and a threshold setter
\* always issues its write and returns an error only when the bus fails.
C14_ThresholdClamps ==
    (call.op \in ThresholdOps) =>
        LET ext == Bit(call.self.config.msb, 4) = 1
            hi  == IF ext THEN 4094 ELSE 2047
            lo  == IF ext THEN -4096 ELSE -2048
            enc(t) == IF ext THEN convert_temp_to_register_extended(t)
                             ELSE convert_temp_to_register_normal(t)
        IN  /\ Len(i2c) = 1
            /\ ret = Result(i2c[1].result)
            /\ (call.arg > hi) =>
                   /\ <<i2c[1].bytes[2], i2c[1].bytes[3]>> = enc(hi)
                   /\ <<i2c[1].bytes[2], i2c[1].bytes[3]>> = <<127, 240>>
            /\ (call.arg < lo) =>
                   /\ <<i2c[1].bytes[2], i2c[1].bytes[3]>> = enc(lo)
                   /\ <<i2c[1].bytes[2], i2c[1].bytes[3]>> = <<128, 0>>
            /\ (call.arg >= lo /\ call.arg <= hi) =>
                   (i2c[1].bytes[2] * 256 + i2c[1].bytes[3])
                       = ((IF ext THEN 8 ELSE 16) * call.arg) % 65536

\* C14 witness: in extended mode a low threshold below -256.0 was written
\* as the encoding of -256.0 and the call succeeded.
C14_Witness ==
    /\ call.op = "set_low_temperature_threshold"
    /\ Bit(config.msb, 4) = 1
    /\ call.arg < -4096
    /\ i2c[1].bytes = <<T_LOW, 128, 0>>
    /\ ret = Ok

\* C16: for every temperature t in [-256.0, 255.875] that is a multiple of
\* 0.125, decoding the extended-mode encoding of t gives t back, and the
\* encoding is a 13-bit two's-complement field left-justified in 16 bits
\* with its 3 low bits zero.
C16_ExtendedRoundTrip ==
    (/\ call.op \in ThresholdOps
     /\ Bit(call.self.config.msb, 4) = 1
     /\ call.arg >= -4096 /\ call.arg <= 4094
     /\ call.arg % 2 = 0) =>
        LET msb == i2c[1].bytes[2]
            lsb == i2c[1].bytes[3]
        IN  /\ decode_extended(msb, lsb) = call.arg
            /\ lsb % 8 = 0
            /\ (msb * 256 + lsb) \div 8 = call.arg % 8192

\* C16 witness: a negative multiple of 0.125 was written as a threshold in
\* extended mode and decodes to itself.
C16_Witness ==
    /\ call.op = "set_high_temperature_threshold"
    /\ Bit(config.msb, 4) = 1
    /\ call.arg = -4094
    /\ decode_extended(i2c[1].bytes[2], i2c[1].bytes[3]) = -4094
    /\ i2c[1].bytes[2] >= 128

\* C15: every call that uses the bus (mode transition, field setter,
\* extended-mode toggle, threshold setter, trigger, temperature read,
\* readiness poll) issues exactly one bus transaction, whether it succeeds
\* or fails; a failure is returned to the caller at once, with no retry.
C15_OneTransactionPerCall ==
    (call.op \notin {"new", "reset_internal_driver_state"}) =>
        /\ Len(i2c) = 1
        /\ i2c[1].address = address
        /\ IF i2c[1].result = 0
           THEN ret.tag = "Ok"
           ELSE ret.tag = "Err" /\ ret.e = i2c[1].result

\* C15 witness: a field setter's single write failed and the error came back.
C15_Witness ==
    /\ call.op = "set_alert_polarity"
    /\ Len(i2c) = 1
    /\ BusFailed
    /\ ret = ErrI2C(i2c[1].result)

\* Whether bytes a and b agree on every bit outside mask.
SameOutside(a, b, mask) ==
    \A i \in 0..7 : (Bit(mask, i) = 0) => (Bit(a, i) = Bit(b, i))

\* The bits of the low and the high byte each configuration call may change.
FieldMask(op) ==
    CASE op \in ModeTransitions           -> [lsb |-> 1, msb |-> 0]
      [] op = "enable_extended_mode"      -> [lsb |-> 0, msb |-> 16]
      [] op = "disable_extended_mode"     -> [lsb |-> 0, msb |-> 16]
      [] op = "set_conversion_rate"       -> [lsb |-> 0, msb |-> 192]
      [] op = "set_fault_queue"           -> [lsb |-> 24, msb |-> 0]
      [] op = "set_alert_polarity"        -> [lsb |-> 4, msb |-> 0]
      [] op = "set_thermostat_mode"       -> [lsb |-> 2, msb |-> 0]

\* C18: each configuration call changes, in the bytes it writes and in the
\* resulting shadow, at most the bits of its own field; hence the
\* RESOLUTION and ALERT bits keep their power-on values in every reachable
\* state.
C18_OnlyOwnField ==
    /\ Bit(config.lsb, 5) = 1 /\ Bit(config.lsb, 6) = 1
    /\ Bit(config.msb, 5) = 1
    /\ (call.op \in WriteConfigOps) =>
        LET old == call.self.config
            m   == FieldMask(call.op)
        IN  /\ SameOutside(i2c[1].bytes[3], old.lsb, m.lsb)
            /\ SameOutside(i2c[1].bytes[2], old.msb, m.msb)
            /\ SameOutside(config.lsb, old.lsb, m.lsb)
            /\ SameOutside(config.msb, old.msb, m.msb)

\* C18 witness: set_thermostat_mode(Comparator) succeeded on a shadow with
\* other low-byte fields set, clearing its own bit only.
C18_Witness ==
    /\ call.op = "set_thermostat_mode"
    /\ call.arg = "Comparator"
    /\ BusSucceeded
    /\ call.self.config.lsb = 96 + 16 + 4 + 2 + 1
    /\ config.lsb = 96 + 16 + 4 + 1

C19_ShadowMirrorsDevice ==
    /\ config.msb = device.msb
    /\ config.lsb = device.lsb - 128 * Bit(device.lsb, 7)
    /\ config.lsb = BitAnd(device.lsb, BitNot(ONE_SHOT))

\* C19 witness: after a field setter, a trigger and a failed setter the
\* device holds the ONE_SHOT bit and the shadow is the register without it.
C19_Witness ==
    /\ call.op = "set_fault_queue"
    /\ BusFailed
    /\ i2c[1].bytes[3] # config.lsb
    /\ Bit(device.lsb, 7) = 1
    /\ device.msb # ConfigDefault.msb
    /\ config = Config(device.lsb - 128, device.msb)

\* Operations that can change the EXTENDED_MODE bit of the shadow.
ExtendedModeChangers ==
    {"enable_extended_mode", "disable_extended_mode", "reset_internal_driver_state"}

\* C20 as stated: the codec of the bytes most recently written to a
\* threshold register matches the current EXTENDED_MODE bit of the shadow.
\* Right after a successful threshold write the codec is the one of the
\* shadow's bit, and the next call either leaves that write the most recent
\* one or is another threshold write, which does not touch the shadow: so
\* the statement requires the bit to survive the step.
C20_Original ==
    [][(call.op \in ThresholdOps /\ BusSucceeded) =>
           Bit(config'.msb, 4) = Bit(config.msb, 4)]_vars

\* C20: a successful threshold write is encoded with the codec selected by
\* the EXTENDED_MODE bit the shadow holds at the time of that call and
\* leaves the bit alone; the bit changes only in enable_extended_mode,
\* disable_extended_mode and reset_internal_driver_state, none of which
\* writes a threshold register, so a threshold written before a toggle
\* stays encoded for the mode it was written in.
C20_CodecOfShadowAtWriteTime ==
    /\ (call.op \in ThresholdOps /\ BusSucceeded) =>
           /\ <<i2c[1].bytes[2], i2c[1].bytes[3]>> =
                  (IF BitAnd(call.self.config.msb, EXTENDED_MODE) # 0
                   THEN convert_temp_to_register_extended(call.arg)
                   ELSE convert_temp_to_register_normal(call.arg))
           /\ BitAnd(config.msb, EXTENDED_MODE)
                  = BitAnd(call.self.config.msb, EXTENDED_MODE)
    /\ (BitAnd(config.msb, EXTENDED_MODE)
            # BitAnd(call.self.config.msb, EXTENDED_MODE)) =>
           /\ call.op \in ExtendedModeChangers
           /\ \A k \in 1..Len(i2c) : i2c[k].bytes[1] \notin {T_LOW, T_HIGH}
    /\ (call.op \in ExtendedModeChangers) =>
           \A k \in 1..Len(i2c) : i2c[k].bytes[1] \notin {T_LOW, T_HIGH}

\* C20 witness: a low threshold was written with the extended codec, whose
\* bytes differ from the normal codec's, and disable_extended_mode can now
\* clear the shadow's bit with a single write to the configuration register.
C20_Witness ==
    /\ call.op = "set_low_temperature_threshold"
    /\ BusSucceeded
    /\ BitAnd(config.msb, EXTENDED_MODE) # 0
    /\ i2c[1].bytes = <<T_LOW>> \o convert_temp_to_register_extended(call.arg)
    /\ convert_temp_to_register_extended(call.arg)
           # convert_temp_to_register_normal(call.arg)
    /\ ENABLED (/\ disable_extended_mode
                /\ BitAnd(config'.msb, EXTENDED_MODE) = 0
                /\ i2c' = <<Write(address, <<CONFIG, config'.msb, config'.lsb>>, 0)>>)

====
